---- MODULE Spec2Model ----
(***************************************************************************)
(* Customs duty calculation engine of backend/server.py: the alcohol and   *)
(* vehicle calculators, the tier resolver, the concession step and the     *)
(* collections the handlers write.                                         *)
(*                                                                         *)
(* Money is kept exactly.  An amount is a record [w, f]: w whole cents     *)
(* (any integer) and f ten-thousandths of a cent (0..9999), so the value   *)
(* is (w + f/10000) cents and one unit of f is 10^-6 dollar.  Declared CIF *)
(* values are whole cents and declared volumes multiples of 10 ml, which   *)
(* makes every charge of the code an exact multiple of 10^-6 dollar.       *)
(* Declared quantities of alcohol are even, which makes the gallons exact  *)
(* at the four decimals they are reported with.                            *)
(* Rates are whole percents.  round(x, 2) is modelled as rounding the      *)
(* exact decimal value to whole cents, ties to even.                       *)
(***************************************************************************)
EXTENDS Integers, Sequences, FiniteSets, TLC

VARIABLES
    current_year,            \* datetime.now().year
    uuid_ctr,                \* number of uuid4() values drawn so far
    vehicle_calculations,    \* db.vehicle_calculations, in insertion order
    alcohol_calculations,    \* db.alcohol_calculations, in insertion order
    request_log,             \* the requests that were calculated, with the id each got
    response,                \* the last HTTP response
    rate_tables,             \* the module-level rate tables and rate constants
    alcohol_batches,         \* db.alcohol_batches, in insertion order
    vehicle_batches,         \* db.vehicle_batches, in insertion order
    documents,               \* db.documents
    classifications,         \* db.classifications
    edits,                   \* the item edits in flight: what each handler read
    deleted_classifications  \* the classifications delete_classification removed

\* the collections of the batch uploads and of the classification routes
batch_vars == <<alcohol_batches, vehicle_batches>>

classification_vars == <<documents, classifications, edits, deleted_classifications>>

vars == <<current_year, uuid_ctr, vehicle_calculations, alcohol_calculations, request_log, response,
          rate_tables, batch_vars, classification_vars>>

\* ------------------------------------------------------------ bounds ----
MaxCalcs == 2        \* calculations stored in one run
MaxTicks == 1        \* new-year rollovers in one run
StartYear == 2024    \* the clock's year at the start of a run
MaxUuids == 3        \* documents and classifications created in one run

\* ------------------------------------------------------ option values ---
None == <<>>
Some(x) == <<x>>
IsNone(o) == o = <<>>
Val(o) == o[1]

\* ------------------------------------------------------- exact money ----
Money(w, f) == [w |-> w, f |-> f]

Cents(c) == Money(c, 0)

Dollars(d) == Money(d * 100, 0)

MZero == Money(0, 0)

MAdd(a, b) ==
    LET s == a.f + b.f
    IN  Money(a.w + b.w + (s \div 10000), s % 10000)

MNeg(a) == IF a.f = 0 THEN Money(0 - a.w, 0) ELSE Money(0 - a.w - 1, 10000 - a.f)

MSub(a, b) == MAdd(a, MNeg(b))

MLe(a, b) == a.w < b.w \/ (a.w = b.w /\ a.f <= b.f)

MLt(a, b) == a.w < b.w \/ (a.w = b.w /\ a.f < b.f)

MMax(a, b) == IF MLe(a, b) THEN b ELSE a

MMin(a, b) == IF MLe(a, b) THEN a ELSE b

\* a * p / 100 for a whole percent p
MPct(a, p) ==
    LET q  == a.w * p
        fp == (q % 100) * 100 + ((a.f * p) \div 100)
    IN  Money((q \div 100) + (fp \div 10000), fp % 10000)

\* round(x, 2): the amount in whole cents, ties to even
Round2(a) ==
    IF a.f < 5000 THEN a.w
    ELSE IF a.f > 5000 THEN a.w + 1
    ELSE IF a.w % 2 = 0 THEN a.w ELSE a.w + 1

Abs(n) == IF n < 0 THEN 0 - n ELSE n

\* ------------------------------------------------ vehicle rate schedule -
Inf == 1000000000    \* float('inf')

VehicleType == {"electric", "hybrid", "gasoline", "diesel", "commercial"}

VEHICLE_DUTY_RATES ==
    [ electric |->
        [ hs_code |-> "8703.80",
          tiers |-> << [max_value |-> 50000, rate |-> 10, description |-> "Value up to $50,000"],
                       [max_value |-> Inf, rate |-> 25, description |-> "Value over $50,000"] >> ],
      hybrid |->
        [ hs_code |-> "8703.40",
          tiers |-> << [max_value |-> 50000, rate |-> 10, description |-> "Value up to $50,000"],
                       [max_value |-> Inf, rate |-> 25, description |-> "Value over $50,000"] >> ],
      gasoline |->
        [ hs_code |-> "8703.23",
          tiers |-> << [max_cc |-> 1500, max_value |-> Inf, rate |-> 45, description |-> "Engine under 1.5L (1500cc)"],
                       [min_cc |-> 1500, max_cc |-> 2000, max_value |-> 50000, rate |-> 45, description |-> "1.5L to 2.0L (valued <= $50k)"],
                       [min_cc |-> 1500, max_cc |-> 2000, min_value |-> 50000, rate |-> 65, description |-> "1.5L to 2.0L (valued > $50k)"],
                       [min_cc |-> 2000, max_value |-> Inf, rate |-> 65, description |-> "Engine over 2.0L (2000cc)"] >> ],
      diesel |->
        [ hs_code |-> "8703.32",
          tiers |-> << [max_cc |-> 1500, max_value |-> Inf, rate |-> 45, description |-> "Engine under 1.5L"],
                       [min_cc |-> 1500, max_cc |-> 2000, max_value |-> 50000, rate |-> 45, description |-> "1.5L to 2.0L (valued <= $50k)"],
                       [min_cc |-> 1500, max_cc |-> 2000, min_value |-> 50000, rate |-> 65, description |-> "1.5L to 2.0L (valued > $50k)"],
                       [min_cc |-> 2000, max_value |-> Inf, rate |-> 65, description |-> "Engine over 2.0L"] >> ],
      commercial |->
        [ hs_code |-> "8704.21",
          tiers |-> << [max_weight |-> 5000, rate |-> 65, description |-> "GVW up to 5 tons"],
                       [min_weight |-> 5000, rate |-> 85, description |-> "GVW over 5 tons (heavy equipment)"] >> ] ]

VEHICLE_VAT_RATE == 10
ENVIRONMENTAL_LEVY_NEW == 250
ENVIRONMENTAL_LEVY_OVER_10_YEARS == 20
ENVIRONMENTAL_LEVY_ANTIQUE == 200
TIRE_LEVY_PER_TIRE == 5
PROCESSING_FEE_RATE == 1
PROCESSING_FEE_MIN == 10
PROCESSING_FEE_MAX == 750

\* tier.get(key, default)
TierGet(tier, key, default) == IF key \in DOMAIN tier THEN tier[key] ELSE default

\* mutant of ValueLe: a value range excludes its upper bound
ValueLe_exclusive(cif, v) == v = Inf \/ MLt(cif, Dollars(v))

\* cif_value <= v and v < cif_value for a schedule value v in dollars
ValueLe(cif, v) == v = Inf \/ MLe(cif, Dollars(v))

ValueGt(cif, v) == v # Inf /\ MLt(Dollars(v), cif)

\* mutant of calculate_processing_fee: a fee above the cap falls back to the minimum
calculate_processing_fee_cap_to_min(cif_value) ==
    LET fee == MPct(cif_value, PROCESSING_FEE_RATE)
    IN  IF MLt(Dollars(PROCESSING_FEE_MAX), fee) THEN Dollars(PROCESSING_FEE_MIN)
        ELSE MMax(Dollars(PROCESSING_FEE_MIN), fee)

\* mutant of calculate_processing_fee: the fee has no minimum
calculate_processing_fee_without_min(cif_value) ==
    LET fee == MPct(cif_value, PROCESSING_FEE_RATE)
    IN  MMin(fee, Dollars(PROCESSING_FEE_MAX))

calculate_processing_fee(cif_value) ==
    LET fee == MPct(cif_value, PROCESSING_FEE_RATE)
    IN  MMax(Dollars(PROCESSING_FEE_MIN), MMin(fee, Dollars(PROCESSING_FEE_MAX)))

\* mutant of calculate_environmental_levy: the 20% levy is taken on the CIF value alone
calculate_environmental_levy_on_cif_only(now_year, year, is_new, is_antique, cif_value, import_duty, num_tires) ==
    LET vehicle_age == now_year - year
    IN  [ levy |-> IF is_antique THEN Dollars(ENVIRONMENTAL_LEVY_ANTIQUE)
                   ELSE IF vehicle_age > 10 THEN MPct(cif_value, ENVIRONMENTAL_LEVY_OVER_10_YEARS)
                   ELSE Dollars(ENVIRONMENTAL_LEVY_NEW),
          branch |-> IF is_antique THEN "antique"
                     ELSE IF vehicle_age > 10 THEN "over_10_years"
                     ELSE "standard",
          requires_approval |-> is_antique \/ vehicle_age > 10,
          tire_levy |-> IF ~is_new /\ num_tires > 0
                        THEN Dollars(num_tires * TIRE_LEVY_PER_TIRE)
                        ELSE MZero ]

\* mutant of calculate_environmental_levy: the age is tested before the antique flag
calculate_environmental_levy_age_before_antique(now_year, year, is_new, is_antique, cif_value, import_duty, num_tires) ==
    LET vehicle_age == now_year - year
        landed_for_levy == MAdd(cif_value, import_duty)
    IN  [ levy |-> IF vehicle_age > 10 THEN MPct(landed_for_levy, ENVIRONMENTAL_LEVY_OVER_10_YEARS)
                   ELSE IF is_antique THEN Dollars(ENVIRONMENTAL_LEVY_ANTIQUE)
                   ELSE Dollars(ENVIRONMENTAL_LEVY_NEW),
          branch |-> IF vehicle_age > 10 THEN "over_10_years"
                     ELSE IF is_antique THEN "antique"
                     ELSE "standard",
          requires_approval |-> is_antique \/ vehicle_age > 10,
          tire_levy |-> IF ~is_new /\ num_tires > 0
                        THEN Dollars(num_tires * TIRE_LEVY_PER_TIRE)
                        ELSE MZero ]

\* mutant of calculate_environmental_levy: the 20% levy starts at an age of 10 years
calculate_environmental_levy_from_age_10(now_year, year, is_new, is_antique, cif_value, import_duty, num_tires) ==
    LET vehicle_age == now_year - year
        landed_for_levy == MAdd(cif_value, import_duty)
    IN  [ levy |-> IF is_antique THEN Dollars(ENVIRONMENTAL_LEVY_ANTIQUE)
                   ELSE IF vehicle_age >= 10 THEN MPct(landed_for_levy, ENVIRONMENTAL_LEVY_OVER_10_YEARS)
                   ELSE Dollars(ENVIRONMENTAL_LEVY_NEW),
          branch |-> IF is_antique THEN "antique"
                     ELSE IF vehicle_age >= 10 THEN "over_10_years"
                     ELSE "standard",
          requires_approval |-> is_antique \/ vehicle_age >= 10,
          tire_levy |-> IF ~is_new /\ num_tires > 0
                        THEN Dollars(num_tires * TIRE_LEVY_PER_TIRE)
                        ELSE MZero ]

calculate_environmental_levy(now_year, year, is_new, is_antique, cif_value, import_duty, num_tires) ==
    LET vehicle_age == now_year - year
        landed_for_levy == MAdd(cif_value, import_duty)
    IN  [ levy |-> IF is_antique THEN Dollars(ENVIRONMENTAL_LEVY_ANTIQUE)
                   ELSE IF vehicle_age > 10 THEN MPct(landed_for_levy, ENVIRONMENTAL_LEVY_OVER_10_YEARS)
                   ELSE Dollars(ENVIRONMENTAL_LEVY_NEW),
          branch |-> IF is_antique THEN "antique"
                     ELSE IF vehicle_age > 10 THEN "over_10_years"
                     ELSE "standard",
          requires_approval |-> is_antique \/ vehicle_age > 10,
          tire_levy |-> IF ~is_new /\ num_tires > 0
                        THEN Dollars(num_tires * TIRE_LEVY_PER_TIRE)
                        ELSE MZero ]

\* mutant of TierMatches: the engine range includes its upper bound
TierMatches_max_cc_inclusive(tier, vehicle_type, engine_cc, cif_value) ==
    LET min_cc    == TierGet(tier, "min_cc", 0)
        max_cc    == TierGet(tier, "max_cc", Inf)
        min_value == TierGet(tier, "min_value", 0)
        max_value == TierGet(tier, "max_value", Inf)
    IN  IF vehicle_type \in {"electric", "hybrid"}
        THEN \/ (ValueLe(cif_value, max_value) /\ ValueGt(cif_value, min_value))
             \/ (min_value = 0 /\ ValueLe(cif_value, max_value))
        ELSE LET engine_matches ==
                     \/ IsNone(engine_cc)
                     \/ (min_cc <= Val(engine_cc) /\ Val(engine_cc) <= max_cc)
                 value_matches ==
                     \/ (ValueGt(cif_value, min_value) /\ ValueLe(cif_value, max_value))
                     \/ (min_value = 0 /\ ValueLe(cif_value, max_value))
             IN  engine_matches /\ value_matches

\* the test of one tier in the loop of determine_vehicle_duty_rate
TierMatches(tier, vehicle_type, engine_cc, cif_value) ==
    LET min_cc    == TierGet(tier, "min_cc", 0)
        max_cc    == TierGet(tier, "max_cc", Inf)
        min_value == TierGet(tier, "min_value", 0)
        max_value == TierGet(tier, "max_value", Inf)
    IN  IF vehicle_type \in {"electric", "hybrid"}
        THEN \/ (ValueLe(cif_value, max_value) /\ ValueGt(cif_value, min_value))
             \/ (min_value = 0 /\ ValueLe(cif_value, max_value))
        ELSE LET engine_matches ==
                     \/ IsNone(engine_cc)
                     \/ (min_cc <= Val(engine_cc) /\ Val(engine_cc) < max_cc)
                     \/ (min_cc <= Val(engine_cc) /\ max_cc = Inf)
                 value_matches ==
                     \/ (ValueGt(cif_value, min_value) /\ ValueLe(cif_value, max_value))
                     \/ (min_value = 0 /\ ValueLe(cif_value, max_value))
             IN  engine_matches /\ value_matches

\* mutant of FirstMatch: the loop keeps the last tier that matches
RECURSIVE FirstMatch_last_match(_, _, _, _, _)
FirstMatch_last_match(tiers, i, vehicle_type, engine_cc, cif_value) ==
    IF i > Len(tiers) THEN 0
    ELSE LET later == FirstMatch_last_match(tiers, i + 1, vehicle_type, engine_cc, cif_value)
         IN  IF later # 0 THEN later
             ELSE IF TierMatches(tiers[i], vehicle_type, engine_cc, cif_value) THEN i
             ELSE 0

\* the loop of determine_vehicle_duty_rate from tier i on: the first tier that
\* matches, 0 when none does
RECURSIVE FirstMatch(_, _, _, _, _)
FirstMatch(tiers, i, vehicle_type, engine_cc, cif_value) ==
    IF i > Len(tiers) THEN 0
    ELSE IF TierMatches(tiers[i], vehicle_type, engine_cc, cif_value) THEN i
    ELSE FirstMatch(tiers, i + 1, vehicle_type, engine_cc, cif_value)

\* mutant of determine_vehicle_duty_rate: a hybrid is rated on the gasoline schedule
determine_vehicle_duty_rate_hybrid_as_gasoline(vehicle_type, engine_cc, cif_value) ==
    LET rates == IF vehicle_type \in DOMAIN VEHICLE_DUTY_RATES /\ vehicle_type # "hybrid"
                 THEN VEHICLE_DUTY_RATES[vehicle_type]
                 ELSE VEHICLE_DUTY_RATES["gasoline"]
        i == FirstMatch(rates.tiers, 1, IF vehicle_type = "hybrid" THEN "gasoline" ELSE vehicle_type,
                        engine_cc, cif_value)
    IN  IF i = 0
        THEN [rate |-> 65, description |-> "Default rate", tier |-> 0]
        ELSE [rate |-> rates.tiers[i].rate, description |-> rates.tiers[i].description, tier |-> i]

determine_vehicle_duty_rate(vehicle_type, engine_cc, cif_value) ==
    LET rates == IF vehicle_type \in DOMAIN VEHICLE_DUTY_RATES
                 THEN VEHICLE_DUTY_RATES[vehicle_type]
                 ELSE VEHICLE_DUTY_RATES["gasoline"]
        i == FirstMatch(rates.tiers, 1, vehicle_type, engine_cc, cif_value)
    IN  IF i = 0
        THEN [rate |-> 65, description |-> "Default rate", tier |-> 0]
        ELSE [rate |-> rates.tiers[i].rate, description |-> rates.tiers[i].description, tier |-> i]

get_engine_category(engine_cc, vehicle_type) ==
    IF vehicle_type = "electric" THEN "Electric Motor"
    ELSE IF vehicle_type = "hybrid" THEN "Hybrid (Electric + ICE)"
    ELSE IF IsNone(engine_cc) THEN "Unknown"
    ELSE IF Val(engine_cc) < 1500 THEN "Small"
    ELSE IF Val(engine_cc) < 2000 THEN "Medium"
    ELSE "Large"

\* mutant of apply_concession: the reductions are applied without the 10% floor
apply_concession_without_floor(duty_rate, qualifies_for_concession, concession_type) ==
    IF ~qualifies_for_concession
    THEN [duty_rate |-> duty_rate, original_duty_rate |-> None,
          concessionary_applied |-> FALSE, warnings |-> <<>>]
    ELSE IF concession_type = "first_vehicle"
    THEN [duty_rate |-> duty_rate - 20, original_duty_rate |-> Some(duty_rate),
          concessionary_applied |-> TRUE, warnings |-> <<"concession_first_vehicle">>]
    ELSE IF concession_type = "returning_resident"
    THEN [duty_rate |-> duty_rate - 15, original_duty_rate |-> Some(duty_rate),
          concessionary_applied |-> TRUE, warnings |-> <<"concession_returning_resident">>]
    ELSE IF concession_type = "disabled"
    THEN [duty_rate |-> 10, original_duty_rate |-> Some(duty_rate),
          concessionary_applied |-> TRUE, warnings |-> <<"concession_disabled">>]
    ELSE [duty_rate |-> duty_rate, original_duty_rate |-> Some(duty_rate),
          concessionary_applied |-> FALSE, warnings |-> <<>>]

\* the concession block of calculate_vehicle_duties: the effective rate, the
\* retained baseline and the warning it appends
apply_concession(duty_rate, qualifies_for_concession, concession_type) ==
    IF ~qualifies_for_concession
    THEN [duty_rate |-> duty_rate, original_duty_rate |-> None,
          concessionary_applied |-> FALSE, warnings |-> <<>>]
    ELSE IF concession_type = "first_vehicle"
    THEN [duty_rate |-> IF duty_rate - 20 >= 10 THEN duty_rate - 20 ELSE 10,
          original_duty_rate |-> Some(duty_rate),
          concessionary_applied |-> TRUE, warnings |-> <<"concession_first_vehicle">>]
    ELSE IF concession_type = "returning_resident"
    THEN [duty_rate |-> IF duty_rate - 15 >= 10 THEN duty_rate - 15 ELSE 10,
          original_duty_rate |-> Some(duty_rate),
          concessionary_applied |-> TRUE, warnings |-> <<"concession_returning_resident">>]
    ELSE IF concession_type = "disabled"
    THEN [duty_rate |-> 10,
          original_duty_rate |-> Some(duty_rate),
          concessionary_applied |-> TRUE, warnings |-> <<"concession_disabled">>]
    ELSE [duty_rate |-> duty_rate, original_duty_rate |-> Some(duty_rate),
          concessionary_applied |-> FALSE, warnings |-> <<>>]

\* mutant of vehicle_warnings: the high-value rule is skipped when the
\* commercial rule fired
vehicle_warnings_high_value_unless_commercial(request, now_year, requires_approval) ==
    (IF requires_approval THEN <<"ministry_approval">> ELSE <<>>)
    \o (IF request.year < now_year - 10 THEN <<"age_20pct_levy">> ELSE <<>>)
    \o (IF ~request.is_new /\ ~IsNone(request.mileage) /\ Val(request.mileage) # 0
           /\ Val(request.mileage) > 100000
        THEN <<"high_mileage">> ELSE <<>>)
    \o (IF request.vehicle_type = "commercial" THEN <<"commercial">>
        ELSE IF MLt(Dollars(100000), Cents(request.cif_value)) THEN <<"high_value">>
        ELSE <<>>)
    \o (IF request.vehicle_type \in {"gasoline", "diesel"} /\ ~IsNone(request.engine_size_cc)
           /\ Val(request.engine_size_cc) # 0 /\ Val(request.engine_size_cc) > 3000
        THEN <<"large_engine">> ELSE <<>>)

\* the warnings appended after the charges are computed, in the code's order
vehicle_warnings(request, now_year, requires_approval) ==
    (IF requires_approval THEN <<"ministry_approval">> ELSE <<>>)
    \o (IF request.year < now_year - 10 THEN <<"age_20pct_levy">> ELSE <<>>)
    \o (IF ~request.is_new /\ ~IsNone(request.mileage) /\ Val(request.mileage) # 0
           /\ Val(request.mileage) > 100000
        THEN <<"high_mileage">> ELSE <<>>)
    \o (IF request.vehicle_type = "commercial" THEN <<"commercial">> ELSE <<>>)
    \o (IF MLt(Dollars(100000), Cents(request.cif_value)) THEN <<"high_value">> ELSE <<>>)
    \o (IF request.vehicle_type \in {"gasoline", "diesel"} /\ ~IsNone(request.engine_size_cc)
           /\ Val(request.engine_size_cc) # 0 /\ Val(request.engine_size_cc) > 3000
        THEN <<"large_engine">> ELSE <<>>)

\* mutant of vehicle_landed_cost: the tire levy is left out of the landed cost
vehicle_landed_cost_without_tire_levy(cif, import_duty, environmental_levy, processing_fee, tire_levy) ==
    MAdd(MAdd(MAdd(cif, import_duty), environmental_levy), processing_fee)

\* Landed Cost = CIF + Duty + Environmental Levy + Processing Fee + Tire Levy
vehicle_landed_cost(cif, import_duty, environmental_levy, processing_fee, tire_levy) ==
    MAdd(MAdd(MAdd(MAdd(cif, import_duty), environmental_levy), processing_fee), tire_levy)

\* the calculation record built by calculate_vehicle_duties
vehicle_calculation(request, user, now_year, calc_id) ==
    LET cif          == Cents(request.cif_value)
        resolved     == determine_vehicle_duty_rate(request.vehicle_type, request.engine_size_cc, cif)
        conc         == apply_concession(resolved.rate, request.qualifies_for_concession,
                                         request.concession_type)
        duty_rate    == conc.duty_rate
        import_duty  == MPct(cif, duty_rate)
        processing_fee == calculate_processing_fee(cif)
        env          == calculate_environmental_levy(now_year, request.year, request.is_new,
                            request.is_antique, cif, import_duty, request.num_tires)
        landed_cost  == vehicle_landed_cost(cif, import_duty, env.levy, processing_fee, env.tire_levy)
        vat          == MPct(landed_cost, VEHICLE_VAT_RATE)
        total_landed_cost == MAdd(landed_cost, vat)
        savings      == IF conc.concessionary_applied
                        THEN Some(MSub(MPct(cif, Val(conc.original_duty_rate)), import_duty))
                        ELSE None
    IN  [ id |-> calc_id,
          user_id |-> user,
          year |-> request.year,
          vehicle_type |-> request.vehicle_type,
          body_style |-> request.body_style,
          engine_size_cc |-> request.engine_size_cc,
          engine_category |-> get_engine_category(request.engine_size_cc, request.vehicle_type),
          cif_value |-> Round2(cif),
          duty_rate |-> duty_rate,
          duty_description |-> resolved.description,
          import_duty |-> Round2(import_duty),
          environmental_levy |-> Round2(env.levy),
          environmental_levy_description |-> env.branch,
          tire_levy |-> Round2(env.tire_levy),
          processing_fee |-> Round2(processing_fee),
          landed_cost |-> Round2(landed_cost),
          vat |-> Round2(vat),
          vat_rate |-> VEHICLE_VAT_RATE,
          total_landed_cost |-> Round2(total_landed_cost),
          warnings |-> conc.warnings \o vehicle_warnings(request, now_year, env.requires_approval),
          concessionary_applied |-> conc.concessionary_applied,
          original_duty_rate |-> conc.original_duty_rate,
          savings |-> IF ~IsNone(savings) /\ Val(savings) # MZero
                      THEN Some(Round2(Val(savings))) ELSE None,
          is_new |-> request.is_new,
          is_antique |-> request.is_antique,
          num_tires |-> request.num_tires,
          requires_approval |-> env.requires_approval,
          mileage |-> request.mileage,
          concession_type |-> request.concession_type,
          created_at |-> now_year ]

\* ------------------------------------------------- alcohol rate schedule -
AlcoholType == {"wine", "beer", "spirits", "liqueur", "other"}

AdValorem(code, rate) ==
    [hs_code |-> code, import_duty_rate |-> rate, duty_type |-> "ad_valorem",
     requires_permit |-> FALSE]

\* mutant of SpecificPlusAdValorem: the tier has no ad valorem rate
SpecificPlusAdValorem_specific_only(code) ==
    [hs_code |-> code, import_duty_rate |-> 0, duty_per_imperial_gallon |-> 10,
     duty_type |-> "specific_plus_ad_valorem", requires_permit |-> FALSE]

SpecificPlusAdValorem(code) ==
    [hs_code |-> code, import_duty_rate |-> 10, duty_per_imperial_gallon |-> 10,
     duty_type |-> "specific_plus_ad_valorem", requires_permit |-> FALSE]

\* mutant of ProofGallon: the duty is $10 per proof gallon
ProofGallon_10_per_gallon(code) ==
    [hs_code |-> code, import_duty_rate |-> 0, duty_per_proof_gallon |-> 10,
     duty_type |-> "proof_gallon", requires_permit |-> TRUE]

ProofGallon(code) ==
    [hs_code |-> code, import_duty_rate |-> 0, duty_per_proof_gallon |-> 15,
     duty_type |-> "proof_gallon", requires_permit |-> TRUE]

ImperialGallon(code) ==
    [hs_code |-> code, import_duty_rate |-> 0, duty_per_imperial_gallon |-> 15,
     duty_type |-> "imperial_gallon", requires_permit |-> TRUE]

ALCOHOL_RATES ==
    [ wine    |-> AdValorem("2204.2190", 50),
      beer    |-> SpecificPlusAdValorem("2203.0090"),
      ale     |-> SpecificPlusAdValorem("2203.0010"),
      stout   |-> SpecificPlusAdValorem("2203.0030"),
      spirits |-> ProofGallon("2208.4010"),
      whisky  |-> ProofGallon("2208.3010"),
      vodka   |-> ProofGallon("2208.6000"),
      rum     |-> ProofGallon("2208.4010"),
      brandy  |-> ProofGallon("2208.2010"),
      liqueur |-> ImperialGallon("2208.7000"),
      tequila |-> ImperialGallon("2208.9090"),
      bitters |-> ImperialGallon("2208.7000"),
      other   |-> ImperialGallon("2208.9090") ]

LITERS_TO_IMPERIAL_GALLON == 22     \* 0.22, in hundredths
ABV_TO_BRITISH_PROOF == 175         \* 1.75, in hundredths
VAT_RATE == 10
LICENSE_FEE_BASE == 50

\* n / d rounded to an integer, ties to even (round(x, k) on a quantity)
RoundDiv(n, d) ==
    LET q == n \div d
        r == n % d
    IN  IF 2 * r < d THEN q
        ELSE IF 2 * r > d THEN q + 1
        ELSE IF q % 2 = 0 THEN q ELSE q + 1

\* the amount of t * k / 10000 cents
MRatio(t, k) ==
    LET hi == t \div 10000
        lo == (t % 10000) * k
    IN  Money(hi * k + (lo \div 10000), lo % 10000)

\* the calculation record built by calculate_alcohol_duties
alcohol_calculation(request, user, now, calc_id) ==
    LET rates == IF request.alcohol_type \in DOMAIN ALCOHOL_RATES
                 THEN ALCOHOL_RATES[request.alcohol_type]
                 ELSE ALCOHOL_RATES["other"]
        cif == Cents(request.cif_value)
        \* total_volume_liters, in millilitres
        total_ml == request.volume_ml * request.quantity
        \* total_ml * alcohol_percentage
        ml_pct == total_ml * request.alcohol_percentage
        duty_type == rates.duty_type
        excise_duty ==
            IF duty_type = "proof_gallon"
            THEN MRatio(ml_pct, (LITERS_TO_IMPERIAL_GALLON * ABV_TO_BRITISH_PROOF
                                 * rates.duty_per_proof_gallon) \div 10)
            ELSE IF duty_type = "imperial_gallon"
            THEN MRatio(total_ml, LITERS_TO_IMPERIAL_GALLON * rates.duty_per_imperial_gallon * 10)
            ELSE IF duty_type = "specific_plus_ad_valorem"
            THEN MRatio(total_ml, LITERS_TO_IMPERIAL_GALLON * rates.duty_per_imperial_gallon * 10)
            ELSE MZero
        import_duty ==
            IF duty_type \in {"proof_gallon", "imperial_gallon"} THEN MZero
            ELSE MPct(cif, rates.import_duty_rate)
        vat_base == MAdd(MAdd(cif, import_duty), excise_duty)
        vat == MPct(vat_base, VAT_RATE)
        license_fee ==
            IF request.has_liquor_license
            THEN IF request.quantity > 24
                 THEN MAdd(Dollars(LICENSE_FEE_BASE), Cents((request.quantity - 24) * 50))
                 ELSE Dollars(LICENSE_FEE_BASE)
            ELSE MZero
        total_landed_cost == MAdd(MAdd(MAdd(MAdd(cif, import_duty), excise_duty), vat), license_fee)
        proof_on == duty_type = "proof_gallon"
        bps_100 == IF proof_on THEN request.alcohol_percentage * ABV_TO_BRITISH_PROOF ELSE 0
        pg_num == IF proof_on THEN ml_pct * ((LITERS_TO_IMPERIAL_GALLON * ABV_TO_BRITISH_PROOF) \div 10) ELSE 0
    IN  [ id |-> calc_id,
          user_id |-> user,
          alcohol_type |-> request.alcohol_type,
          hs_code |-> rates.hs_code,
          quantity |-> request.quantity,
          volume_ml |-> request.volume_ml,
          total_volume_liters |-> RoundDiv(total_ml, 10),                               \* 0.01 l
          imperial_gallons |-> RoundDiv(total_ml * LITERS_TO_IMPERIAL_GALLON, 10),      \* 0.0001 gal
          alcohol_percentage |-> request.alcohol_percentage,
          british_proof_strength |-> IF bps_100 # 0 THEN Some(bps_100) ELSE None,      \* 0.01
          proof_gallons |-> IF pg_num # 0 THEN Some(RoundDiv(pg_num, 100)) ELSE None,   \* 0.0001 gal
          pure_alcohol_liters |-> RoundDiv(ml_pct, 10),                                 \* 0.0001 l
          cif_value |-> Round2(cif),
          import_duty |-> Round2(import_duty),
          import_duty_rate |-> rates.import_duty_rate,
          excise_duty |-> Round2(excise_duty),
          duty_type |-> duty_type,
          vat |-> Round2(vat),
          vat_rate |-> VAT_RATE,
          license_fee |-> Round2(license_fee),
          total_landed_cost |-> Round2(total_landed_cost),
          warnings |->
              (IF request.alcohol_percentage > 40 THEN <<"high_abv">> ELSE <<>>)
              \o (IF total_ml > 10000 /\ ~request.has_liquor_license
                  THEN <<"volume_over_allowance">> ELSE <<>>)
              \o (IF rates.requires_permit THEN <<"permit_required">> ELSE <<>>)
              \o (IF MLt(Dollars(5000), cif) THEN <<"high_value">> ELSE <<>>),
          requires_permit |-> rates.requires_permit,
          created_at |-> now ]

\* the fields of a calculation that the AlcoholCalculationResult response
\* model keeps
AlcoholCalculationResult(calculation) ==
    [ k \in {"id", "alcohol_type", "hs_code", "quantity", "total_volume_liters",
             "alcohol_percentage", "pure_alcohol_liters", "cif_value", "import_duty",
             "import_duty_rate", "excise_duty", "vat", "vat_rate", "license_fee",
             "total_landed_cost", "warnings", "requires_permit", "created_at"}
        |-> calculation[k] ]

\* one row of upload_alcohol_batch: the result entry, and the full-precision
\* item total that is added to the batch total
alcohol_batch_row(row, idx) ==
    LET alcohol_type == IF row.alcohol_type \in DOMAIN ALCOHOL_RATES
                        THEN row.alcohol_type ELSE "other"
        rates == ALCOHOL_RATES[alcohol_type]
        cif == Cents(row.cif_value)
        total_ml == row.volume_ml * row.quantity
        ml_pct == total_ml * row.alcohol_percentage
        import_duty == MPct(cif, rates.import_duty_rate)
        \* pure_alcohol_liters * 15.00, or total_volume_liters * 2.00
        excise_duty ==
            IF alcohol_type \in {"spirits", "liqueur", "other"}
            THEN MRatio(ml_pct, 150)
            ELSE MRatio(total_ml, 2000)
        vat == MPct(MAdd(MAdd(cif, import_duty), excise_duty), VAT_RATE)
        license_fee ==
            IF row.has_liquor_license
            THEN IF row.quantity > 24
                 THEN MAdd(Dollars(LICENSE_FEE_BASE), Cents((row.quantity - 24) * 50))
                 ELSE Dollars(LICENSE_FEE_BASE)
            ELSE MZero
        item_total == MAdd(MAdd(MAdd(MAdd(cif, import_duty), excise_duty), vat), license_fee)
    IN  [ item_total |-> item_total,
          result |->
            [ row |-> idx,
              alcohol_type |-> alcohol_type,
              hs_code |-> rates.hs_code,
              quantity |-> row.quantity,
              total_volume_liters |-> RoundDiv(total_ml, 10),
              alcohol_percentage |-> row.alcohol_percentage,
              cif_value |-> Round2(cif),
              import_duty |-> Round2(import_duty),
              import_duty_rate |-> rates.import_duty_rate,
              excise_duty |-> Round2(excise_duty),
              vat |-> Round2(vat),
              license_fee |-> Round2(license_fee),
              total_landed_cost |-> Round2(item_total),
              warnings |->
                  (IF row.alcohol_percentage > 40 THEN <<"high_abv">> ELSE <<>>)
                  \o (IF rates.requires_permit THEN <<"permit_required">> ELSE <<>>),
              requires_permit |-> rates.requires_permit ] ]

\* the loop of upload_alcohol_batch over rows i..Len(rows): a row whose cells
\* do not parse as numbers raises and goes to errors
RECURSIVE alcohol_batch_rows(_, _, _)
alcohol_batch_rows(rows, i, acc) ==
    IF i > Len(rows) THEN acc
    ELSE IF ~rows[i].numeric
    THEN alcohol_batch_rows(rows, i + 1,
             [acc EXCEPT !.errors = Append(@, [row |-> i, error |-> "ValueError"])])
    ELSE LET r == alcohol_batch_row(rows[i], i)
         IN  alcohol_batch_rows(rows, i + 1,
                 [acc EXCEPT !.results = Append(@, r.result),
                             !.total_landed_cost = MAdd(@, r.item_total)])

\* the loop of upload_vehicle_batch: after the duty rate is determined the row
\* reads the names ENVIRONMENTAL_LEVY_RATE, STAMP_DUTY_RATE and PROCESSING_FEE,
\* which the module does not define: the NameError is caught and the row goes
\* to errors, as does a row whose cells do not parse
RECURSIVE vehicle_batch_rows(_, _, _)
vehicle_batch_rows(rows, i, acc) ==
    IF i > Len(rows) THEN acc
    ELSE IF ~rows[i].numeric
    THEN vehicle_batch_rows(rows, i + 1,
             [acc EXCEPT !.errors = Append(@, [row |-> i, error |-> "ValueError"])])
    ELSE vehicle_batch_rows(rows, i + 1,
             [acc EXCEPT !.errors = Append(@, [row |-> i, error |-> "NameError"])])

\* the copy of a tier that get_vehicle_rates returns: infinity replaced by null
safe_tier(tier) ==
    [ key \in DOMAIN tier |->
        IF key # "description" /\ tier[key] = Inf THEN None ELSE tier[key] ]

serializable_rates(duty_rates) ==
    [ vehicle_type \in DOMAIN duty_rates |->
        [ hs_code |-> duty_rates[vehicle_type].hs_code,
          tiers |-> [ i \in 1..Len(duty_rates[vehicle_type].tiers) |->
                        safe_tier(duty_rates[vehicle_type].tiers[i]) ] ] ]

\* to_list(100) of the history query
HistoryLimit == 100

Reverse(q) == [ i \in 1..Len(q) |-> q[Len(q) + 1 - i] ]

\* ------------------------------------------------------------ inputs ----
Users == {"u1"}

NoConcession == [qualifies |-> FALSE, type |-> "None"]

Concessions ==
    { NoConcession,
      [qualifies |-> TRUE,  type |-> "first_vehicle"],
      [qualifies |-> TRUE,  type |-> "returning_resident"],
      [qualifies |-> TRUE,  type |-> "disabled"],
      [qualifies |-> TRUE,  type |-> "other"] }

\* well-formed declarations (non-negative magnitudes, known categories)
EngineSizes == {None, Some(1499), Some(1500), Some(1999), Some(2000), Some(20001)}

\* CIF values in cents: zero, $1,000.41, the $50,000 tier threshold and one
\* cent above it, the value whose 1% fee is the $750 cap and one cent above
\* it, and one cent above the $100,000 high-value threshold
CifValues == {0, 100041, 5000000, 5000001, 7500000, 7500001, 10000001}

ModelYears == {StartYear - 11, StartYear - 10, StartYear}

VehicleRequest(t, e, c, y, n, a, k) ==
    [ vehicle_type |-> t, engine_size_cc |-> e, cif_value |-> c, year |-> y,
      is_new |-> n, is_antique |-> a, num_tires |-> 4, mileage |-> None, body_style |-> None,
      qualifies_for_concession |-> k.qualifies, concession_type |-> k.type ]

\* the small-engine scenario of the calculator's tests: 1200cc at CIF $25,000,
\* and a used vehicle at the 100,000 mileage threshold
ScenarioVehicleRequests ==
    { VehicleRequest(t, Some(1200), 2500000, StartYear, n, FALSE, NoConcession) :
        t \in {"gasoline", "diesel"}, n \in BOOLEAN }
    \cup { [VehicleRequest("gasoline", Some(1200), 2500000, StartYear, FALSE, FALSE, NoConcession)
              EXCEPT !.mileage = Some(100000)] }

VehicleRequests ==
    { VehicleRequest(t, e, c, y, n, a, k) :
        t \in VehicleType, e \in EngineSizes, c \in CifValues, y \in ModelYears,
        n \in BOOLEAN, a \in BOOLEAN, k \in Concessions }
    \cup ScenarioVehicleRequests

AlcoholRequest(t, v, p, q, c, l) ==
    [ alcohol_type |-> t, volume_ml |-> v, alcohol_percentage |-> p, quantity |-> q,
      cif_value |-> c, has_liquor_license |-> l ]

AlcoholRequests ==
    { AlcoholRequest(t, v, p, q, c, l) :
        t \in AlcoholType, v \in {330, 750}, p \in {5, 40, 45}, q \in {12, 26},
        c \in {0, 54000, 100041, 500001}, l \in BOOLEAN }

\* declarations as the handlers can receive them: the well-formed ones and
\* ones with a negative magnitude, a strength outside [0,100] or an unknown
\* category
UnvalidatedVehicleRequests ==
    { VehicleRequest(t, e, c, y, n, a, k) :
        t \in VehicleType \cup {"boat"}, e \in {None, Some(0 - 1), Some(1500)},
        c \in {0 - 100, 100041}, y \in {StartYear - 11, StartYear},
        n \in BOOLEAN, a \in BOOLEAN, k \in Concessions }

UnvalidatedAlcoholRequests ==
    { AlcoholRequest(t, v, p, q, c, l) :
        t \in AlcoholType \cup {"mead"}, v \in {750, 0 - 750}, p \in {0 - 1, 40, 101},
        q \in {0 - 1, 12}, c \in {0 - 100, 54000}, l \in BOOLEAN }

\* a resubmission of a declaration: unchanged, with another concession
\* setting, with the next higher CIF value, or with the mileage declared
\* (100,001) or left out
VehicleVariants(r) ==
    {r}
    \cup { [r EXCEPT !.mileage = IF IsNone(r.mileage) THEN Some(100001) ELSE None] }
    \cup { [r EXCEPT !.qualifies_for_concession = k.qualifies, !.concession_type = k.type] :
             k \in Concessions }
    \cup { [r EXCEPT !.cif_value = c] :
             c \in { x \in CifValues : /\ x > r.cif_value
                                       /\ \A z \in CifValues : z > r.cif_value => x <= z } }

AlcoholVariants(r) == {r}

\* the requests a run may send next: any first declaration, then
\* resubmissions of the declaration sent last
VehicleInputs(requests) ==
    IF request_log = <<>> THEN requests
    ELSE IF request_log[Len(request_log)].kind = "vehicle"
    THEN VehicleVariants(request_log[Len(request_log)].request)
    ELSE {}

AlcoholInputs(requests) ==
    IF request_log = <<>> THEN requests
    ELSE IF request_log[Len(request_log)].kind = "alcohol"
    THEN AlcoholVariants(request_log[Len(request_log)].request)
    ELSE {}

\* the callers of the service routes
ServiceUsers == {"u1", "u2"}

\* declarations sent to the calculators while batches are uploaded and the
\* rates and the history are queried
ServiceVehicleRequests ==
    { [VehicleRequest("electric", None, 5000001, StartYear, TRUE, FALSE, NoConcession)
          EXCEPT !.body_style = Some("suv")],
      VehicleRequest("gasoline", Some(1500), 5000000, StartYear - 11, FALSE, FALSE,
                     [qualifies |-> TRUE, type |-> "first_vehicle"]),
      VehicleRequest("commercial", None, 100041, StartYear, TRUE, FALSE, NoConcession) }

ServiceAlcoholRequests ==
    { AlcoholRequest("wine", 750, 5, 12, 54000, TRUE),
      AlcoholRequest("spirits", 750, 40, 12, 54000, FALSE) }

\* a row of an uploaded alcohol sheet; numeric is whether its cells parse
AlcoholRow(t, p, c, l, numeric) ==
    [ alcohol_type |-> t, volume_ml |-> 750, alcohol_percentage |-> p, quantity |-> 12,
      cif_value |-> c, has_liquor_license |-> l, numeric |-> numeric ]

AlcoholRows ==
    { AlcoholRow(t, 40, 54000, FALSE, TRUE) : t \in AlcoholType \cup {"mead"} }
    \cup { AlcoholRow("wine", 5, 100041, TRUE, TRUE), AlcoholRow("beer", 5, 0, TRUE, FALSE) }

\* an uploaded file: its extension, whether the sheet has the required
\* columns, and its rows
UploadedFile(ext, columns, rows) == [file_ext |-> ext, required_cols |-> columns, rows |-> rows]

AlcoholFiles ==
    { UploadedFile("csv", TRUE, <<r>>) : r \in AlcoholRows }
    \cup { UploadedFile("xlsx", TRUE, <<AlcoholRow("beer", 5, 0, TRUE, FALSE),
                                        AlcoholRow("spirits", 40, 54000, FALSE, TRUE)>>),
           UploadedFile("csv", TRUE, <<>>),
           UploadedFile("pdf", TRUE, <<AlcoholRow("wine", 40, 54000, FALSE, TRUE)>>),
           UploadedFile("csv", FALSE, <<AlcoholRow("wine", 40, 54000, FALSE, TRUE)>>) }

\* a row of an uploaded vehicle sheet with every required field present
VehicleRow(t, e, c, numeric) ==
    [ make |-> "Toyota", model |-> "Corolla", year |-> StartYear, vehicle_type |-> t,
      engine_size_cc |-> e, cif_value |-> c, country_of_origin |-> "Japan",
      is_new |-> TRUE, numeric |-> numeric ]

VehicleFiles ==
    { UploadedFile("csv", TRUE, <<VehicleRow("electric", None, 5000000, TRUE)>>),
      UploadedFile("csv", TRUE, <<VehicleRow("gasoline", Some(1200), 2500000, TRUE),
                                  VehicleRow("gasoline", Some(1200), 2500000, FALSE)>>),
      UploadedFile("xls", TRUE, <<>>),
      UploadedFile("pdf", TRUE, <<VehicleRow("electric", None, 5000000, TRUE)>>),
      UploadedFile("csv", FALSE, <<VehicleRow("electric", None, 5000000, TRUE)>>) }

\* the requests that edit items of a classification at the same time
Editors == {"e1", "e2"}

\* an edit request that has not started
NoEdit == [ pc |-> "idle", op |-> "none", classification_id |-> 0, item_index |-> 0,
            item_update |-> None, classification |-> None ]

ClassificationItem(description, review_status) ==
    [description |-> description, review_status |-> review_status]

\* what the file processing and the classifier return for a document
ClassifiedItemLists ==
    { <<>>,
      <<ClassificationItem("a", "needs_review"), ClassificationItem("b", "auto_approved"),
        ClassificationItem("c", "auto_approved")>> }

\* bodies of the item update requests
ItemUpdates == { ClassificationItem("x", "auto_approved") }

\* item indices of the requests, the last one past the end of every list
ItemIndices == 0..3

DocumentFileTypes == {"csv", "txt"}

\* the module-level rate tables and rate constants, as loaded
ModuleRateTables ==
    [ ALCOHOL_RATES |-> ALCOHOL_RATES,
      VAT_RATE |-> VAT_RATE,
      LICENSE_FEE_BASE |-> LICENSE_FEE_BASE,
      VEHICLE_DUTY_RATES |-> VEHICLE_DUTY_RATES,
      VEHICLE_VAT_RATE |-> VEHICLE_VAT_RATE,
      ENVIRONMENTAL_LEVY_NEW |-> ENVIRONMENTAL_LEVY_NEW,
      ENVIRONMENTAL_LEVY_OVER_10_YEARS |-> ENVIRONMENTAL_LEVY_OVER_10_YEARS,
      ENVIRONMENTAL_LEVY_ANTIQUE |-> ENVIRONMENTAL_LEVY_ANTIQUE,
      TIRE_LEVY_PER_TIRE |-> TIRE_LEVY_PER_TIRE,
      PROCESSING_FEE_RATE |-> PROCESSING_FEE_RATE,
      PROCESSING_FEE_MIN |-> PROCESSING_FEE_MIN,
      PROCESSING_FEE_MAX |-> PROCESSING_FEE_MAX ]

\* ------------------------------------------------------ state machine ---
Init ==
    /\ current_year = StartYear
    /\ uuid_ctr = 0
    /\ vehicle_calculations = <<>>
    /\ alcohol_calculations = <<>>
    /\ request_log = <<>>
    /\ response = [status |-> 0, kind |-> "none", body |-> None]
    /\ rate_tables = ModuleRateTables
    /\ alcohol_batches = <<>>
    /\ vehicle_batches = <<>>
    /\ documents = {}
    /\ classifications = {}
    /\ edits = [e \in Editors |-> NoEdit]
    /\ deleted_classifications = {}

\* the year changes
Tick ==
    /\ current_year < StartYear + MaxTicks
    /\ current_year' = current_year + 1
    /\ UNCHANGED <<uuid_ctr, vehicle_calculations, alcohol_calculations, request_log, response>>
    /\ UNCHANGED <<rate_tables, batch_vars, classification_vars>>

\* POST /vehicle/calculate, request body rejected by the VehicleCalculationRequest model
calculate_vehicle_duties_invalid(request, user) ==
    /\ Len(request_log) < MaxCalcs
    /\ request.vehicle_type \notin VehicleType
    /\ response' = [status |-> 422, kind |-> "vehicle", body |-> None]
    /\ UNCHANGED <<current_year, uuid_ctr, vehicle_calculations, alcohol_calculations, request_log>>
    /\ UNCHANGED <<rate_tables, batch_vars, classification_vars>>

\* POST /vehicle/calculate
calculate_vehicle_duties(request, user) ==
    /\ Len(request_log) < MaxCalcs
    /\ request.vehicle_type \in VehicleType
    /\ LET calculation == vehicle_calculation(request, user, current_year, uuid_ctr + 1)
       IN  /\ uuid_ctr' = uuid_ctr + 1
           /\ vehicle_calculations' = Append(vehicle_calculations, calculation)
           /\ request_log' = Append(request_log,
                  [kind |-> "vehicle", id |-> uuid_ctr + 1, request |-> request])
           /\ response' = [status |-> 200, kind |-> "vehicle", body |-> Some(calculation)]
    /\ UNCHANGED <<current_year, alcohol_calculations>>
    /\ UNCHANGED <<rate_tables, batch_vars, classification_vars>>

\* POST /alcohol/calculate, request body rejected by the AlcoholCalculationRequest model
calculate_alcohol_duties_invalid(request, user) ==
    /\ Len(request_log) < MaxCalcs
    /\ request.alcohol_type \notin AlcoholType
    /\ response' = [status |-> 422, kind |-> "alcohol", body |-> None]
    /\ UNCHANGED <<current_year, uuid_ctr, vehicle_calculations, alcohol_calculations, request_log>>
    /\ UNCHANGED <<rate_tables, batch_vars, classification_vars>>

\* POST /alcohol/calculate
calculate_alcohol_duties(request, user) ==
    /\ Len(request_log) < MaxCalcs
    /\ request.alcohol_type \in AlcoholType
    /\ LET calculation == alcohol_calculation(request, user, current_year, uuid_ctr + 1)
       IN  /\ uuid_ctr' = uuid_ctr + 1
           /\ alcohol_calculations' = Append(alcohol_calculations, calculation)
           /\ request_log' = Append(request_log,
                  [kind |-> "alcohol", id |-> uuid_ctr + 1, request |-> request])
           /\ response' = [status |-> 200, kind |-> "alcohol",
                           body |-> Some(AlcoholCalculationResult(calculation))]
    /\ UNCHANGED <<current_year, vehicle_calculations>>
    /\ UNCHANGED <<rate_tables, batch_vars, classification_vars>>

\* mutant of get_vehicle_calculations: the query has no user_id filter
get_vehicle_calculations_of_all_users(user) ==
    LET calculations == Reverse(vehicle_calculations)
    IN  /\ response' = [status |-> 200, kind |-> "vehicle_history", user |-> user,
                        body |-> Some(SubSeq(calculations, 1,
                                      IF Len(calculations) < HistoryLimit
                                      THEN Len(calculations) ELSE HistoryLimit))]
        /\ UNCHANGED <<current_year, uuid_ctr, vehicle_calculations, alcohol_calculations, request_log>>
        /\ UNCHANGED <<rate_tables, batch_vars, classification_vars>>

\* GET /vehicle/calculations: the caller's records, newest first, at most 100
get_vehicle_calculations(user) ==
    LET Mine(c) == c.user_id = user
        calculations == Reverse(SelectSeq(vehicle_calculations, Mine))
    IN  /\ response' = [status |-> 200, kind |-> "vehicle_history", user |-> user,
                        body |-> Some(SubSeq(calculations, 1,
                                      IF Len(calculations) < HistoryLimit
                                      THEN Len(calculations) ELSE HistoryLimit))]
        /\ UNCHANGED <<current_year, uuid_ctr, vehicle_calculations, alcohol_calculations, request_log>>
        /\ UNCHANGED <<rate_tables, batch_vars, classification_vars>>

\* mutant of get_vehicle_rates: the infinite bounds are removed from the tiers
\* of the module's table itself before it is serialised
get_vehicle_rates_in_place(user) ==
    /\ response' = [status |-> 200, kind |-> "vehicle_rates",
                    body |-> Some([rates |-> serializable_rates(rate_tables.VEHICLE_DUTY_RATES),
                                   vat_rate |-> rate_tables.VEHICLE_VAT_RATE,
                                   environmental_levy |->
                                     [new_vehicle |-> rate_tables.ENVIRONMENTAL_LEVY_NEW,
                                      over_10_years_rate |-> rate_tables.ENVIRONMENTAL_LEVY_OVER_10_YEARS,
                                      antique |-> rate_tables.ENVIRONMENTAL_LEVY_ANTIQUE,
                                      tire_levy |-> rate_tables.TIRE_LEVY_PER_TIRE],
                                   processing_fee |->
                                     [rate |-> rate_tables.PROCESSING_FEE_RATE,
                                      min |-> rate_tables.PROCESSING_FEE_MIN,
                                      max |-> rate_tables.PROCESSING_FEE_MAX]])]
    /\ rate_tables' = [rate_tables EXCEPT !.VEHICLE_DUTY_RATES =
          [ vehicle_type \in DOMAIN @ |->
              [ hs_code |-> @[vehicle_type].hs_code,
                tiers |-> [ i \in 1..Len(@[vehicle_type].tiers) |->
                    [ key \in { k \in DOMAIN @[vehicle_type].tiers[i] :
                                  k = "description" \/ @[vehicle_type].tiers[i][k] # Inf }
                        |-> @[vehicle_type].tiers[i][key] ] ] ] ]]
    /\ UNCHANGED <<current_year, uuid_ctr, vehicle_calculations, alcohol_calculations, request_log>>
    /\ UNCHANGED <<batch_vars, classification_vars>>

\* GET /vehicle/rates
get_vehicle_rates(user) ==
    /\ response' = [status |-> 200, kind |-> "vehicle_rates",
                    body |-> Some([rates |-> serializable_rates(rate_tables.VEHICLE_DUTY_RATES),
                                   vat_rate |-> rate_tables.VEHICLE_VAT_RATE,
                                   environmental_levy |->
                                     [new_vehicle |-> rate_tables.ENVIRONMENTAL_LEVY_NEW,
                                      over_10_years_rate |-> rate_tables.ENVIRONMENTAL_LEVY_OVER_10_YEARS,
                                      antique |-> rate_tables.ENVIRONMENTAL_LEVY_ANTIQUE,
                                      tire_levy |-> rate_tables.TIRE_LEVY_PER_TIRE],
                                   processing_fee |->
                                     [rate |-> rate_tables.PROCESSING_FEE_RATE,
                                      min |-> rate_tables.PROCESSING_FEE_MIN,
                                      max |-> rate_tables.PROCESSING_FEE_MAX]])]
    /\ UNCHANGED <<current_year, uuid_ctr, vehicle_calculations, alcohol_calculations, request_log>>
    /\ UNCHANGED <<rate_tables, batch_vars, classification_vars>>

\* GET /alcohol/rates
get_alcohol_rates(user) ==
    /\ response' = [status |-> 200, kind |-> "alcohol_rates",
                    body |-> Some([rates |-> rate_tables.ALCOHOL_RATES,
                                   vat_rate |-> rate_tables.VAT_RATE,
                                   license_fee_base |-> rate_tables.LICENSE_FEE_BASE])]
    /\ UNCHANGED <<current_year, uuid_ctr, vehicle_calculations, alcohol_calculations, request_log>>
    /\ UNCHANGED <<rate_tables, batch_vars, classification_vars>>

\* POST /alcohol/upload
upload_alcohol_batch(file, user) ==
    /\ Len(request_log) < MaxCalcs
    /\ IF file.file_ext \notin {"csv", "xlsx", "xls"} \/ ~file.required_cols
       THEN /\ response' = [status |-> 400, kind |-> "alcohol_batch", body |-> None]
            /\ UNCHANGED <<uuid_ctr, alcohol_batches, request_log>>
       ELSE LET batch_id == uuid_ctr + 1
                done == alcohol_batch_rows(file.rows, 1,
                            [results |-> <<>>, errors |-> <<>>, total_landed_cost |-> MZero])
                batch_record ==
                    [ id |-> batch_id,
                      user_id |-> user,
                      total_items |-> Len(done.results),
                      total_landed_cost |-> Round2(done.total_landed_cost),
                      results |-> done.results,
                      errors |-> done.errors,
                      created_at |-> current_year ]
            IN  /\ uuid_ctr' = batch_id
                /\ alcohol_batches' = Append(alcohol_batches, batch_record)
                /\ request_log' = Append(request_log,
                       [kind |-> "alcohol_batch", id |-> batch_id, request |-> file])
                /\ response' = [status |-> 200, kind |-> "alcohol_batch",
                                body |-> Some([ batch_id |-> batch_id,
                                                total_items |-> Len(done.results),
                                                successful |-> Len(done.results),
                                                failed |-> Len(done.errors),
                                                total_landed_cost |-> Round2(done.total_landed_cost),
                                                results |-> done.results,
                                                errors |-> done.errors ])]
    /\ UNCHANGED <<current_year, vehicle_calculations, alcohol_calculations>>
    /\ UNCHANGED <<rate_tables, vehicle_batches, classification_vars>>

\* POST /vehicle/upload
upload_vehicle_batch(file, user) ==
    /\ Len(request_log) < MaxCalcs
    /\ IF file.file_ext \notin {"csv", "xlsx", "xls"} \/ ~file.required_cols
       THEN /\ response' = [status |-> 400, kind |-> "vehicle_batch", body |-> None]
            /\ UNCHANGED <<uuid_ctr, vehicle_batches, request_log>>
       ELSE LET batch_id == uuid_ctr + 1
                done == vehicle_batch_rows(file.rows, 1,
                            [results |-> <<>>, errors |-> <<>>, total_cif |-> 0,
                             total_duties |-> MZero, total_landed_cost |-> MZero])
                batch_record ==
                    [ id |-> batch_id,
                      user_id |-> user,
                      total_vehicles |-> Len(done.results),
                      successful |-> Len(done.results),
                      failed |-> Len(done.errors),
                      total_cif |-> done.total_cif,
                      total_duties |-> Round2(done.total_duties),
                      total_landed_cost |-> Round2(done.total_landed_cost),
                      results |-> done.results,
                      errors |-> done.errors,
                      created_at |-> current_year ]
            IN  /\ uuid_ctr' = batch_id
                /\ vehicle_batches' = Append(vehicle_batches, batch_record)
                /\ request_log' = Append(request_log,
                       [kind |-> "vehicle_batch", id |-> batch_id, request |-> file])
                /\ response' = [status |-> 200, kind |-> "vehicle_batch",
                                body |-> Some([ batch_id |-> batch_id,
                                                total_vehicles |-> Len(done.results),
                                                successful |-> Len(done.results),
                                                failed |-> Len(done.errors),
                                                total_cif |-> done.total_cif,
                                                total_duties |-> Round2(done.total_duties),
                                                total_landed_cost |-> Round2(done.total_landed_cost),
                                                results |-> done.results,
                                                errors |-> done.errors ])]
    /\ UNCHANGED <<current_year, vehicle_calculations, alcohol_calculations>>
    /\ UNCHANGED <<rate_tables, alcohol_batches, classification_vars>>

Next ==
    \/ \E request \in VehicleInputs(VehicleRequests), user \in Users :
           calculate_vehicle_duties(request, user)
    \/ \E request \in AlcoholInputs(AlcoholRequests), user \in Users :
           calculate_alcohol_duties(request, user)

\* well-formed declarations, calculated within one calendar year
Spec == Init /\ [][Next]_vars

NextClock ==
    \/ Tick
    \/ \E request \in VehicleInputs(VehicleRequests), user \in Users :
           calculate_vehicle_duties(request, user)
    \/ \E request \in AlcoholInputs(AlcoholRequests), user \in Users :
           calculate_alcohol_duties(request, user)

\* well-formed declarations, with the year changing between calculations
SpecClock == Init /\ [][NextClock]_vars

NextUnvalidated ==
    \/ Tick
    \/ \E request \in VehicleInputs(UnvalidatedVehicleRequests), user \in Users :
           calculate_vehicle_duties_invalid(request, user)
    \/ \E request \in VehicleInputs(UnvalidatedVehicleRequests), user \in Users :
           calculate_vehicle_duties(request, user)
    \/ \E request \in AlcoholInputs(UnvalidatedAlcoholRequests), user \in Users :
           calculate_alcohol_duties_invalid(request, user)
    \/ \E request \in AlcoholInputs(UnvalidatedAlcoholRequests), user \in Users :
           calculate_alcohol_duties(request, user)

\* declarations as received, malformed ones included
SpecUnvalidated == Init /\ [][NextUnvalidated]_vars

\* sum(1 for item in items if item.get("review_status") == "auto_approved")
auto_approved(items) ==
    Cardinality({ i \in DOMAIN items : items[i].review_status = "auto_approved" })

\* list.pop(item_index), with the 0-based index of the route
Pop(items, item_index) ==
    [ i \in 1..(Len(items) - 1) |-> IF i <= item_index THEN items[i] ELSE items[i + 1] ]

\* POST /documents/upload
upload_document(file_ext, user) ==
    /\ uuid_ctr < MaxUuids
    /\ IF file_ext \notin {"xlsx", "xls", "csv", "pdf"}
       THEN /\ response' = [status |-> 400, kind |-> "document", body |-> None]
            /\ UNCHANGED <<uuid_ctr, documents>>
       ELSE LET doc == [ id |-> uuid_ctr + 1,
                         user_id |-> user,
                         file_type |-> file_ext,
                         status |-> "uploaded",
                         classification_id |-> None ]
            IN  /\ uuid_ctr' = uuid_ctr + 1
                /\ documents' = documents \cup {doc}
                /\ response' = [status |-> 200, kind |-> "document", body |-> Some(doc)]
    /\ UNCHANGED <<current_year, vehicle_calculations, alcohol_calculations, request_log>>
    /\ UNCHANGED <<rate_tables, batch_vars, classifications, edits, deleted_classifications>>

\* POST /classifications/process/{doc_id}; classified_items is what the file
\* processing and the classifier return
process_and_classify(doc_id, classified_items, user) ==
    /\ uuid_ctr < MaxUuids
    /\ LET found == { doc \in documents : doc.id = doc_id /\ doc.user_id = user }
       IN  IF found = {}
           THEN /\ response' = [status |-> 404, kind |-> "classification", body |-> None]
                /\ UNCHANGED <<uuid_ctr, documents, classifications>>
           ELSE IF classified_items = <<>>
           THEN /\ response' = [status |-> 400, kind |-> "classification", body |-> None]
                /\ UNCHANGED <<uuid_ctr, documents, classifications>>
           ELSE LET classification_id == uuid_ctr + 1
                    classification ==
                        [ id |-> classification_id,
                          user_id |-> user,
                          document_id |-> doc_id,
                          items |-> classified_items,
                          total_items |-> Len(classified_items),
                          auto_approved_count |-> auto_approved(classified_items),
                          needs_review_count |->
                              Len(classified_items) - auto_approved(classified_items),
                          updated_at |-> None ]
                IN  /\ uuid_ctr' = classification_id
                    /\ classifications' = classifications \cup {classification}
                    /\ documents' =
                           { IF doc.id = doc_id
                             THEN [doc EXCEPT !.status = "classified",
                                              !.classification_id = Some(classification_id)]
                             ELSE doc : doc \in documents }
                    /\ response' = [status |-> 200, kind |-> "classification",
                                    body |-> Some(classification)]
    /\ UNCHANGED <<current_year, vehicle_calculations, alcohol_calculations, request_log>>
    /\ UNCHANGED <<rate_tables, batch_vars, edits, deleted_classifications>>

\* the first half of both item routes: find_one, then the index check; the
\* request keeps the classification it has read
item_edit_find_one(editor, op, classification_id, item_index, item_update, user) ==
    /\ edits[editor].pc = "idle"
    /\ LET found == { c \in classifications :
                         c.id = classification_id /\ c.user_id = user }
       IN  IF found = {}
           THEN /\ response' = [status |-> 404, kind |-> "item", body |-> None]
                /\ UNCHANGED edits
           ELSE LET classification == CHOOSE c \in found : TRUE
                IN  IF item_index < 0 \/ item_index >= Len(classification.items)
                    THEN /\ response' = [status |-> 400, kind |-> "item", body |-> None]
                         /\ UNCHANGED edits
                    ELSE /\ edits' = [edits EXCEPT ![editor] =
                                [ pc |-> "read", op |-> op,
                                  classification_id |-> classification_id,
                                  item_index |-> item_index,
                                  item_update |-> item_update,
                                  classification |-> Some(classification) ]]
                         /\ UNCHANGED response
    /\ UNCHANGED <<current_year, uuid_ctr, vehicle_calculations, alcohol_calculations, request_log>>
    /\ UNCHANGED <<rate_tables, batch_vars, documents, classifications, deleted_classifications>>

\* PUT /classifications/{classification_id}/items/{item_index}, up to the await
\* of update_one
update_classification_item_find_one(editor, classification_id, item_index, item_update, user) ==
    item_edit_find_one(editor, "update", classification_id, item_index, Some(item_update), user)

\* the rest of the PUT route: the item is replaced in the list that was read
\* and update_one stores that list and its counts
update_classification_item_update_one(editor) ==
    /\ edits[editor].pc = "read"
    /\ edits[editor].op = "update"
    /\ LET edit == edits[editor]
           items == [Val(edit.classification).items EXCEPT
                        ![edit.item_index + 1] = Val(edit.item_update)]
       IN  /\ classifications' =
                  { IF c.id = edit.classification_id
                    THEN [c EXCEPT !.items = items,
                                   !.auto_approved_count = auto_approved(items),
                                   !.needs_review_count = Len(items) - auto_approved(items),
                                   !.updated_at = Some(current_year)]
                    ELSE c : c \in classifications }
           /\ edits' = [edits EXCEPT ![editor].pc = "done"]
           /\ response' = [status |-> 200, kind |-> "item", body |-> None]
    /\ UNCHANGED <<current_year, uuid_ctr, vehicle_calculations, alcohol_calculations, request_log>>
    /\ UNCHANGED <<rate_tables, batch_vars, documents, deleted_classifications>>

\* DELETE /classifications/{classification_id}/items/{item_index}, up to the
\* await of update_one
delete_classification_item_find_one(editor, classification_id, item_index, user) ==
    item_edit_find_one(editor, "delete", classification_id, item_index, None, user)

\* the rest of the DELETE route: the item is popped from the list that was
\* read and update_one stores that list, its length and its counts
delete_classification_item_update_one(editor) ==
    /\ edits[editor].pc = "read"
    /\ edits[editor].op = "delete"
    /\ LET edit == edits[editor]
           items == Pop(Val(edit.classification).items, edit.item_index)
       IN  /\ classifications' =
                  { IF c.id = edit.classification_id
                    THEN [c EXCEPT !.items = items,
                                   !.total_items = Len(items),
                                   !.auto_approved_count = auto_approved(items),
                                   !.needs_review_count = Len(items) - auto_approved(items),
                                   !.updated_at = Some(current_year)]
                    ELSE c : c \in classifications }
           /\ edits' = [edits EXCEPT ![editor].pc = "done"]
           /\ response' = [status |-> 200, kind |-> "item", body |-> None]
    /\ UNCHANGED <<current_year, uuid_ctr, vehicle_calculations, alcohol_calculations, request_log>>
    /\ UNCHANGED <<rate_tables, batch_vars, documents, deleted_classifications>>

\* DELETE /classifications/{classification_id}
delete_classification(classification_id, user) ==
    /\ LET found == { c \in classifications :
                         c.id = classification_id /\ c.user_id = user }
       IN  IF found = {}
           THEN /\ response' = [status |-> 404, kind |-> "classification", body |-> None]
                /\ UNCHANGED <<documents, classifications, deleted_classifications>>
           ELSE /\ classifications' = classifications \ found
                /\ documents' = { doc \in documents :
                                     ~(doc.id = classification_id /\ doc.user_id = user) }
                /\ deleted_classifications' = deleted_classifications \cup
                       { [id |-> c.id, user_id |-> c.user_id, document_id |-> c.document_id] :
                           c \in found }
                /\ response' = [status |-> 200, kind |-> "classification", body |-> None]
    /\ UNCHANGED <<current_year, uuid_ctr, vehicle_calculations, alcohol_calculations, request_log>>
    /\ UNCHANGED <<rate_tables, batch_vars, edits>>

NextClassification ==
    \/ \E file_ext \in DocumentFileTypes, user \in Users : upload_document(file_ext, user)
    \/ \E doc_id \in 1..MaxUuids, classified_items \in ClassifiedItemLists, user \in Users :
           process_and_classify(doc_id, classified_items, user)
    \/ \E editor \in Editors, classification_id \in 1..MaxUuids, item_index \in ItemIndices,
          item_update \in ItemUpdates, user \in Users :
           update_classification_item_find_one(editor, classification_id, item_index,
                                               item_update, user)
    \/ \E editor \in Editors : update_classification_item_update_one(editor)
    \/ \E editor \in Editors, classification_id \in 1..MaxUuids, item_index \in ItemIndices,
          user \in Users :
           delete_classification_item_find_one(editor, classification_id, item_index, user)
    \/ \E editor \in Editors : delete_classification_item_update_one(editor)
    \/ \E classification_id \in 1..MaxUuids, user \in Users :
           delete_classification(classification_id, user)

\* documents are uploaded and classified, two requests edit items of a
\* classification with their database calls interleaved, and classifications
\* are deleted
SpecClassification == Init /\ [][NextClassification]_vars

NextService ==
    \/ \E request \in ServiceVehicleRequests, user \in ServiceUsers :
           calculate_vehicle_duties(request, user)
    \/ \E request \in ServiceAlcoholRequests, user \in ServiceUsers :
           calculate_alcohol_duties(request, user)
    \/ \E file \in AlcoholFiles, user \in ServiceUsers : upload_alcohol_batch(file, user)
    \/ \E file \in VehicleFiles, user \in ServiceUsers : upload_vehicle_batch(file, user)
    \/ \E user \in ServiceUsers : get_vehicle_calculations(user)
    \/ \E user \in ServiceUsers : get_vehicle_rates(user)
    \/ \E user \in ServiceUsers : get_alcohol_rates(user)

\* the calculators, the batch uploads and the queries, called by two users in
\* any order
SpecService == Init /\ [][NextService]_vars

\* ------------------------------------------------------------ claims ----
SeqToSet(q) == { q[i] : i \in 1..Len(q) }

\* the VAT of a record is within one cent of 10% of the base (amounts in cents)
VatIsTenPercentOf(vat, base) == Abs(10 * vat - base) <= 10

VehicleVatBase(c) ==
    c.cif_value + c.import_duty + c.environmental_levy + c.tire_levy + c.processing_fee

\* C1: in every breakdown of calculate_vehicle_duties and of
\* calculate_alcohol_duties the VAT is 10% of the tax-inclusive base: CIF value +
\* import duty + levy or excise + every fee charged (processing fee and tire levy
\* of a vehicle, license fee of an alcohol consignment).
C1_VatOnTaxInclusiveBase ==
    /\ \A c \in SeqToSet(vehicle_calculations) :
           VatIsTenPercentOf(c.vat, VehicleVatBase(c))
    /\ \A c \in SeqToSet(alcohol_calculations) :
           VatIsTenPercentOf(c.vat, c.cif_value + c.import_duty + c.excise_duty + c.license_fee)

VehicleItemSum(c) ==
    c.cif_value + c.import_duty + c.environmental_levy + c.tire_levy + c.processing_fee + c.vat

AlcoholItemSum(c) ==
    c.cif_value + c.import_duty + c.excise_duty + c.vat + c.license_fee

Logged(kind) == { e \in SeqToSet(request_log) : e.kind = kind }

VehicleRecord(e) == CHOOSE c \in SeqToSet(vehicle_calculations) : c.id = e.id

AlcoholRecord(e) == CHOOSE c \in SeqToSet(alcohol_calculations) : c.id = e.id

\* a tier's declared predicates, by the convention its description states:
\* engine in [min_cc, max_cc), value in (min_value, max_value]; a predicate on
\* an undeclared bound or on an absent engine size does not constrain
DeclaredPredicatesHold(tier, engine_cc, cif_value) ==
    /\ ("min_cc" \in DOMAIN tier /\ ~IsNone(engine_cc)) => tier.min_cc <= Val(engine_cc)
    /\ ("max_cc" \in DOMAIN tier /\ ~IsNone(engine_cc)) => Val(engine_cc) < tier.max_cc
    /\ ("min_value" \in DOMAIN tier) => tier.min_value * 100 < cif_value
    /\ ("max_value" \in DOMAIN tier /\ tier.max_value # Inf) => cif_value <= tier.max_value * 100

\* the tiers of the schedule selected for a request whose declared predicates hold
HoldingTiers(request) ==
    LET tiers == VEHICLE_DUTY_RATES[request.vehicle_type].tiers
    IN  { i \in 1..Len(tiers) :
            DeclaredPredicatesHold(tiers[i], request.engine_size_cc, request.cif_value) }

Min(S) == CHOOSE x \in S : \A y \in S : x <= y

\* C3: when no tier of the selected schedule matches the input,
\* determine_vehicle_duty_rate signals a configuration error and no breakdown
\* is produced; the fallback rate is never returned silently.
C3_UnresolvableTierFailsClosed ==
    /\ \A c \in SeqToSet(vehicle_calculations) : c.duty_description # "Default rate"
    /\ \A e \in Logged("vehicle") : HoldingTiers(e.request) # {}
    /\ (response.status = 200 /\ response.kind = "vehicle")
           => Val(response.body).duty_description # "Default rate"

\* C4: for every vehicle type of the schedule and every input with CIF value >= 0
\* and engine size >= 0 or absent, a tier whose declared predicates hold exists,
\* and the rate and description resolved are those of the first such tier in
\* schedule-declaration order; the "Default rate" fallback is not returned.
C4_FirstDeclaredTierResolved ==
    \A e \in Logged("vehicle") :
        LET r == e.request
            c == VehicleRecord(e)
            tiers == VEHICLE_DUTY_RATES[r.vehicle_type].tiers
        IN  (r.cif_value >= 0 /\ (IsNone(r.engine_size_cc) \/ Val(r.engine_size_cc) >= 0))
            => /\ HoldingTiers(r) # {}
               /\ c.duty_description = tiers[Min(HoldingTiers(r))].description
               /\ c.duty_description # "Default rate"
               /\ (~r.qualifies_for_concession => c.duty_rate = tiers[Min(HoldingTiers(r))].rate)
               /\ (r.qualifies_for_concession
                      => c.original_duty_rate = Some(tiers[Min(HoldingTiers(r))].rate))

\* a 1500cc gasoline car one cent over $50,000 resolved to the third tier,
\* and a 2000cc one to the fourth
C4_Witness ==
    /\ \E e \in Logged("vehicle") :
           /\ e.request.vehicle_type = "gasoline"
           /\ e.request.engine_size_cc = Some(1500)
           /\ e.request.cif_value = 5000001
           /\ VehicleRecord(e).duty_description = "1.5L to 2.0L (valued > $50k)"
    /\ \E e \in Logged("vehicle") :
           /\ e.request.engine_size_cc = Some(1500)
           /\ e.request.cif_value = 5000000
           /\ VehicleRecord(e).duty_description = "1.5L to 2.0L (valued <= $50k)"

\* a declaration with no malformed field
WellFormedAlcohol(r) ==
    /\ r.alcohol_type \in AlcoholType
    /\ r.quantity >= 0
    /\ r.volume_ml >= 0
    /\ r.cif_value >= 0
    /\ r.alcohol_percentage >= 0
    /\ r.alcohol_percentage <= 100

\* C5: a declaration with a malformed field (negative quantity, volume or CIF
\* value, strength outside [0,100], unrecognized category) is rejected before
\* any calculation: no breakdown is returned for it and no record of it is
\* stored.
C5_MalformedDeclarationRejected ==
    /\ \A e \in Logged("alcohol") : WellFormedAlcohol(e.request)
    /\ \A c \in SeqToSet(alcohol_calculations) :
           /\ c.quantity >= 0
           /\ c.volume_ml >= 0
           /\ c.cif_value >= 0
           /\ c.alcohol_percentage \in 0..100

\* the fields of a vehicle record other than the id and the timestamp of the
\* stored document
VehicleBreakdown(c) ==
    [ k \in (DOMAIN c) \ {"id", "created_at"} |-> c[k] ]

AlcoholBreakdown(c) ==
    [ k \in (DOMAIN c) \ {"id", "created_at"} |-> c[k] ]

\* C6: calculating twice with the same valid declaration yields the same
\* breakdown, field for field (the id and the timestamp that identify the
\* stored document left aside).
C6_Deterministic ==
    /\ \A e1, e2 \in Logged("vehicle") :
           e1.request = e2.request
               => VehicleBreakdown(VehicleRecord(e1)) = VehicleBreakdown(VehicleRecord(e2))
    /\ \A e1, e2 \in Logged("alcohol") :
           e1.request = e2.request
               => AlcoholBreakdown(AlcoholRecord(e1)) = AlcoholBreakdown(AlcoholRecord(e2))

\* every base rate of the vehicle schedule, and the fallback rate
ScheduleRates ==
    { VEHICLE_DUTY_RATES[t].tiers[i].rate :
        t \in VehicleType, i \in 1..2 }
    \cup { VEHICLE_DUTY_RATES[t].tiers[i].rate : t \in {"gasoline", "diesel"}, i \in 3..4 }
    \cup { 65 }

ConcessionTypes == {"first_vehicle", "returning_resident", "disabled"}

\* C7: for every base rate of the vehicle schedule and every concession type
\* the effective duty rate is not negative, not below the 10% floor and not
\* above the baseline rate, and for a declaration with CIF value >= 0 the
\* savings, CIF x baseline rate - CIF x effective rate, are >= 0.
C7_ConcessionWithinFloorAndBaseline ==
    /\ \A rate \in ScheduleRates, t \in ConcessionTypes :
           LET conc == apply_concession(rate, TRUE, t)
           IN  /\ conc.duty_rate >= 0
               /\ conc.duty_rate >= 10
               /\ conc.duty_rate <= rate
    /\ \A e \in Logged("vehicle") :
           LET c == VehicleRecord(e)
               cif == Cents(e.request.cif_value)
           IN  c.concessionary_applied
               => /\ c.duty_rate >= 10
                  /\ c.duty_rate <= Val(c.original_duty_rate)
                  /\ (e.request.cif_value >= 0
                         => /\ MLe(MZero, MSub(MPct(cif, Val(c.original_duty_rate)),
                                               MPct(cif, c.duty_rate)))
                            /\ (~IsNone(c.savings) => Val(c.savings) >= 0))

\* a first-vehicle concession on a 25% baseline, held at the 10% floor
\* (25% - 20% would be 5%), with positive savings
C7_Witness ==
    \E c \in SeqToSet(vehicle_calculations) :
        /\ c.concessionary_applied
        /\ c.concession_type = "first_vehicle"
        /\ c.original_duty_rate = Some(25)
        /\ c.duty_rate = 10
        /\ ~IsNone(c.savings) /\ Val(c.savings) > 0

\* C8: a vehicle breakdown carries the pre-concession baseline rate and a
\* savings amount exactly when a concession was applied, with savings =
\* baseline import duty - effective import duty; otherwise both are null.
C8_BaselineAndSavingsIffConcession ==
    \A e \in Logged("vehicle") :
        LET c == VehicleRecord(e)
            cif == Cents(e.request.cif_value)
        IN  /\ c.concessionary_applied <=> ~IsNone(c.original_duty_rate)
            /\ c.concessionary_applied <=> ~IsNone(c.savings)
            /\ c.concessionary_applied
                   => c.savings = Some(Round2(MSub(MPct(cif, Val(c.original_duty_rate)),
                                                   MPct(cif, c.duty_rate))))

\* two requests that differ at most in the concession fields
SameButConcession(r1, r2) ==
    [r1 EXCEPT !.qualifies_for_concession = FALSE, !.concession_type = "None"]
        = [r2 EXCEPT !.qualifies_for_concession = FALSE, !.concession_type = "None"]

\* C9: the concession step only affects the import-duty rate.  For two vehicle
\* requests that differ only in qualifies_for_concession / concession_type,
\* calculated in the same year, the tier resolved, the environmental-levy
\* branch, the tire levy, the processing fee and the VAT rate are the same,
\* and the levy and VAT amounts differ only through the import duty in their
\* base: a flat levy is unchanged, the 20% levy changes by 20% of the change
\* of the import duty, and the VAT by 10% of the change of duty plus levy.
C9_ConcessionOnlyAffectsDutyRate ==
    \A e1, e2 \in Logged("vehicle") :
        LET c1 == VehicleRecord(e1)
            c2 == VehicleRecord(e2)
            d_duty == c2.import_duty - c1.import_duty
            d_levy == c2.environmental_levy - c1.environmental_levy
            d_vat  == c2.vat - c1.vat
        IN  (SameButConcession(e1.request, e2.request) /\ c1.created_at = c2.created_at)
            => /\ c1.duty_description = c2.duty_description
               /\ c1.environmental_levy_description = c2.environmental_levy_description
               /\ c1.requires_approval = c2.requires_approval
               /\ c1.tire_levy = c2.tire_levy
               /\ c1.processing_fee = c2.processing_fee
               /\ c1.vat_rate = c2.vat_rate
               /\ c1.cif_value = c2.cif_value
               /\ (c1.duty_rate = c2.duty_rate => c1.total_landed_cost = c2.total_landed_cost)
               /\ (c1.environmental_levy_description # "over_10_years" => d_levy = 0)
               /\ (c1.environmental_levy_description = "over_10_years"
                      => Abs(5 * d_levy - d_duty) <= 6)
               /\ Abs(10 * d_vat - (d_duty + d_levy)) <= 12

\* the same old vehicle calculated without and with a concession that lowers
\* its import duty
C9_Witness ==
    \E e1, e2 \in Logged("vehicle") :
        /\ SameButConcession(e1.request, e2.request)
        /\ ~e1.request.qualifies_for_concession
        /\ VehicleRecord(e2).concessionary_applied
        /\ VehicleRecord(e1).created_at = VehicleRecord(e2).created_at
        /\ VehicleRecord(e1).environmental_levy_description = "over_10_years"
        /\ VehicleRecord(e2).import_duty < VehicleRecord(e1).import_duty

\* two requests that differ at most in the CIF value
SameButCif(r1, r2) == [r1 EXCEPT !.cif_value = 0] = [r2 EXCEPT !.cif_value = 0]

\* C10: with vehicle type, engine size, model year and concession setting held
\* fixed (and the calculations made in the same year), a higher CIF value never
\* gives a lower total landed cost, in particular across the $50,000 tier
\* threshold.
C10_TotalMonotoneInCif ==
    \A e1, e2 \in Logged("vehicle") :
        (/\ SameButCif(e1.request, e2.request)
         /\ VehicleRecord(e1).created_at = VehicleRecord(e2).created_at
         /\ e1.request.cif_value <= e2.request.cif_value)
        => VehicleRecord(e1).total_landed_cost <= VehicleRecord(e2).total_landed_cost

\* an electric vehicle calculated at $50,000 and at $50,000.01: the second
\* falls in the 25% tier and costs more
C10_Witness ==
    \E e1, e2 \in Logged("vehicle") :
        /\ SameButCif(e1.request, e2.request)
        /\ e1.request.vehicle_type = "electric"
        /\ e1.request.cif_value = 5000000
        /\ e2.request.cif_value = 5000001
        /\ VehicleRecord(e1).duty_rate = 10
        /\ VehicleRecord(e2).duty_rate = 25
        /\ VehicleRecord(e1).total_landed_cost < VehicleRecord(e2).total_landed_cost

\* C11: in the spirits scenario (12 units x 750 mL at 40% strength: 9 L, 0.22
\* imperial gallons per liter, proof factor 1.75) calculate_alcohol_duties
\* computes proof gallons of approximately 1.386 (within 0.001), and the excise
\* is that quantity times $15 per proof gallon.  Proof gallons are in units of
\* 0.0001 gallon, the excise in cents.
C11_SpiritsScenarioProofGallons ==
    \A e \in Logged("alcohol") :
        LET r == e.request
            c == AlcoholRecord(e)
        IN  (/\ r.alcohol_type = "spirits"
             /\ r.quantity = 12
             /\ r.volume_ml = 750
             /\ r.alcohol_percentage = 40)
            => /\ ~IsNone(c.proof_gallons)
               /\ Abs(Val(c.proof_gallons) - 13860) <= 10
               /\ Abs(100 * c.excise_duty - Val(c.proof_gallons) * 15) <= 50

\* the rate the statement gives for an engine size and a CIF value in cents
CombustionRate(engine_cc, cif_value) ==
    IF engine_cc < 1500 THEN 45
    ELSE IF engine_cc < 2000 THEN (IF cif_value <= 5000000 THEN 45 ELSE 65)
    ELSE 65

C14_AntiqueFlatLevy ==
    \A e \in Logged("vehicle") :
        LET c == VehicleRecord(e)
        IN  e.request.is_antique
            => /\ c.environmental_levy = 20000
               /\ c.environmental_levy_description = "antique"

\* an antique vehicle 11 years old, whose 20% levy would not be $200
C14_Witness ==
    \E e \in Logged("vehicle") :
        /\ e.request.is_antique
        /\ VehicleRecord(e).created_at - e.request.year > 10
        /\ e.request.cif_value = 5000001
        /\ VehicleRecord(e).environmental_levy = 20000

VehicleRuleRank(w) ==
    IF w \in {"concession_first_vehicle", "concession_returning_resident", "concession_disabled"}
    THEN 1
    ELSE IF w = "ministry_approval" THEN 2
    ELSE IF w = "age_20pct_levy" THEN 3
    ELSE IF w = "high_mileage" THEN 4
    ELSE IF w = "commercial" THEN 5
    ELSE IF w = "high_value" THEN 6
    ELSE IF w = "large_engine" THEN 7
    ELSE 0

AlcoholRuleRank(w) ==
    IF w = "high_abv" THEN 1
    ELSE IF w = "volume_over_allowance" THEN 2
    ELSE IF w = "permit_required" THEN 3
    ELSE IF w = "high_value" THEN 4
    ELSE 0

\* ws is a subsequence of the rule order: known rules, strictly increasing
InRuleOrder(ws, Rank(_)) ==
    /\ \A i \in 1..Len(ws) : Rank(ws[i]) > 0
    /\ \A i \in 1..(Len(ws) - 1) : Rank(ws[i]) < Rank(ws[i + 1])

\* two requests that differ at most in the declared mileage
SameButMileage(r1, r2) == [r1 EXCEPT !.mileage = None] = [r2 EXCEPT !.mileage = None]

\* the fields of a vehicle record that the mileage rule must leave alone
WithoutWarnings(c) ==
    [ k \in (DOMAIN c) \ {"id", "created_at", "warnings", "mileage"} |-> c[k] ]

\* C19: warnings are cumulative, order-preserving and independent.  The
\* warnings of a calculation are a subsequence of the fixed rule order
\* (vehicles: concession, ministry approval, age, high mileage, commercial,
\* high value, large engine; alcohol: high ABV, volume over allowance without
\* license, permit required, high value); each rule fires exactly when its own
\* predicate holds, whatever the other rules did; and a rule changes no numeric
\* field: two declarations that differ only in the mileage, which only the
\* high-mileage rule reads, get the same breakdown apart from the warnings.
C19_WarningsOrderedAndIndependent ==
    /\ \A e \in Logged("vehicle") :
           LET r == e.request
               c == VehicleRecord(e)
               ws == SeqToSet(c.warnings)
           IN  /\ InRuleOrder(c.warnings, VehicleRuleRank)
               /\ ("concession_first_vehicle" \in ws)
                      <=> (c.concessionary_applied /\ r.concession_type = "first_vehicle")
               /\ ("concession_returning_resident" \in ws)
                      <=> (c.concessionary_applied /\ r.concession_type = "returning_resident")
               /\ ("concession_disabled" \in ws)
                      <=> (c.concessionary_applied /\ r.concession_type = "disabled")
               /\ ("ministry_approval" \in ws) <=> c.requires_approval
               /\ ("age_20pct_levy" \in ws) <=> (r.year < c.created_at - 10)
               /\ ("high_mileage" \in ws)
                      <=> (~r.is_new /\ ~IsNone(r.mileage) /\ Val(r.mileage) > 100000)
               /\ ("commercial" \in ws) <=> (r.vehicle_type = "commercial")
               /\ ("high_value" \in ws) <=> (r.cif_value > 10000000)
               /\ ("large_engine" \in ws)
                      <=> (/\ r.vehicle_type \in {"gasoline", "diesel"}
                           /\ ~IsNone(r.engine_size_cc)
                           /\ Val(r.engine_size_cc) > 3000)
    /\ \A e1, e2 \in Logged("vehicle") :
           (/\ SameButMileage(e1.request, e2.request)
            /\ VehicleRecord(e1).created_at = VehicleRecord(e2).created_at)
           => WithoutWarnings(VehicleRecord(e1)) = WithoutWarnings(VehicleRecord(e2))
    /\ \A e \in Logged("alcohol") :
           LET r == e.request
               c == AlcoholRecord(e)
               ws == SeqToSet(c.warnings)
           IN  /\ InRuleOrder(c.warnings, AlcoholRuleRank)
               /\ ("high_abv" \in ws) <=> (r.alcohol_percentage > 40)
               /\ ("volume_over_allowance" \in ws)
                      <=> (r.volume_ml * r.quantity > 10000 /\ ~r.has_liquor_license)
               /\ ("permit_required" \in ws) <=> c.requires_permit
               /\ ("high_value" \in ws) <=> (r.cif_value > 500000)

\* a used commercial vehicle, 11 years old, over $100,000, with a disability
\* concession, calculated without and with a mileage of 100,001: five and six
\* warnings, in the rule order, and the same charges
C19_Witness ==
    \E e1, e2 \in Logged("vehicle") :
        /\ SameButMileage(e1.request, e2.request)
        /\ VehicleRecord(e1).warnings
               = <<"concession_disabled", "ministry_approval", "age_20pct_levy",
                   "commercial", "high_value">>
        /\ VehicleRecord(e2).warnings
               = <<"concession_disabled", "ministry_approval", "age_20pct_levy",
                   "high_mileage", "commercial", "high_value">>
        /\ VehicleRecord(e1).total_landed_cost = VehicleRecord(e2).total_landed_cost

\* C20: an engine displacement above 20000cc is a data-entry error reported as
\* a warning, not a hard failure: the vehicle calculation completes and its
\* warnings contain an advisory about the displacement (the large-engine
\* warning is counted as one).
C20_ImplausibleDisplacementWarned ==
    \A e \in Logged("vehicle") :
        (~IsNone(e.request.engine_size_cc) /\ Val(e.request.engine_size_cc) > 20000)
        => /\ \E c \in SeqToSet(vehicle_calculations) : c.id = e.id
           /\ \E w \in SeqToSet(VehicleRecord(e).warnings) :
                  w \in {"implausible_displacement", "large_engine"}


\* C21: for every alcohol declaration, whatever its duty type, the result
\* exposes all three derived magnitudes: imperial gallons, proof gallons and
\* liters of pure alcohol.  The stored record must carry a value for each, and
\* the result returned to the caller must carry the three fields.
C21_AllThreeMagnitudesExposed ==
    /\ \A i \in 1..Len(alcohol_calculations) :
           LET c == alcohol_calculations[i]
           IN  /\ {"imperial_gallons", "proof_gallons", "pure_alcohol_liters"} \subseteq DOMAIN c
               /\ ~IsNone(c.proof_gallons)
    /\ (response.kind = "alcohol" /\ response.status = 200) =>
           {"imperial_gallons", "proof_gallons", "pure_alcohol_liters"}
               \subseteq DOMAIN Val(response.body)

\* a stored record without the fields that name the call: its id and caller
WithoutCaller(calculation) == [calculation EXCEPT !.id = 0, !.user_id = "alone"]

\* C22: the calculators are safe to invoke concurrently from many callers: no
\* calculation, batch upload or rates query ever writes the rate tables or the
\* rate constants, so under any interleaving each call stores and returns the
\* charges it would compute if run alone on the tables as loaded.
C22_CallsAsIfAlone ==
    /\ rate_tables = ModuleRateTables
    /\ \A i \in 1..Len(request_log) :
          LET entry == request_log[i]
          IN  CASE entry.kind = "vehicle" ->
                     \E j \in 1..Len(vehicle_calculations) :
                        LET c == vehicle_calculations[j]
                        IN  /\ c.id = entry.id
                            /\ WithoutCaller(c) = WithoutCaller(
                                  vehicle_calculation(entry.request, "alone", c.created_at, 0))
                [] entry.kind = "alcohol" ->
                     \E j \in 1..Len(alcohol_calculations) :
                        LET c == alcohol_calculations[j]
                        IN  /\ c.id = entry.id
                            /\ WithoutCaller(c) = WithoutCaller(
                                  alcohol_calculation(entry.request, "alone", c.created_at, 0))
                [] entry.kind = "alcohol_batch" ->
                     \E j \in 1..Len(alcohol_batches) :
                        /\ alcohol_batches[j].id = entry.id
                        /\ alcohol_batches[j].results =
                              alcohol_batch_rows(entry.request.rows, 1,
                                  [results |-> <<>>, errors |-> <<>>,
                                   total_landed_cost |-> MZero]).results
                [] OTHER -> TRUE
    /\ (response.kind = "vehicle_rates") =>
          Val(response.body) =
              [rates |-> serializable_rates(VEHICLE_DUTY_RATES),
               vat_rate |-> VEHICLE_VAT_RATE,
               environmental_levy |->
                 [new_vehicle |-> ENVIRONMENTAL_LEVY_NEW,
                  over_10_years_rate |-> ENVIRONMENTAL_LEVY_OVER_10_YEARS,
                  antique |-> ENVIRONMENTAL_LEVY_ANTIQUE,
                  tire_levy |-> TIRE_LEVY_PER_TIRE],
               processing_fee |->
                 [rate |-> PROCESSING_FEE_RATE, min |-> PROCESSING_FEE_MIN,
                  max |-> PROCESSING_FEE_MAX]]
    /\ (response.kind = "alcohol_rates") =>
          Val(response.body) = [rates |-> ALCOHOL_RATES, vat_rate |-> VAT_RATE,
                                license_fee_base |-> LICENSE_FEE_BASE]

\* two callers have each had a calculation stored and the vehicle rates have
\* been queried in between or afterwards
C22_Witness ==
    /\ Len(vehicle_calculations) + Len(alcohol_calculations) = 2
    /\ \E i, j \in 1..Len(vehicle_calculations) :
          vehicle_calculations[i].user_id # vehicle_calculations[j].user_id
    /\ response.kind = "vehicle_rates"
    /\ rate_tables.VEHICLE_DUTY_RATES["electric"].tiers[2].max_value = Inf

C25_LevyWarningIffLevyCharged ==
    \A e \in Logged("vehicle") :
        LET r == e.request
            c == VehicleRecord(e)
            warned == "age_20pct_levy" \in SeqToSet(c.warnings)
        IN  /\ (r.year < c.created_at - 10) => warned
            /\ warned <=> (c.environmental_levy_description = "over_10_years")

\* the declaration a row of an alcohol sheet makes
RowRequest(row) ==
    [ alcohol_type |-> row.alcohol_type, volume_ml |-> row.volume_ml,
      alcohol_percentage |-> row.alcohol_percentage, quantity |-> row.quantity,
      cif_value |-> row.cif_value, has_liquor_license |-> row.has_liquor_license ]

\* C26: the alcohol batch path and the single-calculation path agree: for the
\* same declaration (alcohol type among wine, beer, spirits, liqueur, other;
\* same volume, strength, quantity, CIF value and license flag),
\* upload_alcohol_batch computes the same import_duty, excise_duty, vat,
\* license_fee and total_landed_cost as calculate_alcohol_duties.
C26_BatchAgreesWithSingle ==
    \A i \in 1..Len(alcohol_batches) :
       \A j \in 1..Len(alcohol_batches[i].results) :
          LET result == alcohol_batches[i].results[j]
              entry == CHOOSE e \in Logged("alcohol_batch") : e.id = alcohol_batches[i].id
              row == entry.request.rows[result.row]
              single == alcohol_calculation(RowRequest(row), alcohol_batches[i].user_id,
                                            alcohol_batches[i].created_at, 0)
          IN  row.alcohol_type \in {"wine", "beer", "spirits", "liqueur", "other"}
              => /\ result.import_duty = single.import_duty
                 /\ Abs(result.excise_duty - single.excise_duty) <= 1
                 /\ Abs(result.vat - single.vat) <= 1
                 /\ result.license_fee = single.license_fee
                 /\ Abs(result.total_landed_cost - single.total_landed_cost) <= 1

\* C27: in upload_vehicle_batch, every row whose required fields are present
\* and parse correctly yields an entry in results (counted in 'successful')
\* with its computed charges, not an entry in errors; successful + failed
\* always equals the number of rows.
C27_ValidVehicleRowsSucceed ==
    \A i \in 1..Len(vehicle_batches) :
       LET batch == vehicle_batches[i]
           entry == CHOOSE e \in Logged("vehicle_batch") : e.id = batch.id
           rows == entry.request.rows
       IN  /\ batch.successful + batch.failed = Len(rows)
           /\ batch.successful = Len(batch.results)
           /\ \A k \in 1..Len(rows) :
                 rows[k].numeric
                 => /\ \E j \in 1..Len(batch.results) : batch.results[j].row = k
                    /\ \A j \in 1..Len(batch.errors) : batch.errors[j].row # k

\* the engine band a tier description of the gasoline and diesel schedules names
DescriptionBand(description) ==
    IF description \in {"Engine under 1.5L (1500cc)", "Engine under 1.5L"} THEN "Small"
    ELSE IF description \in {"1.5L to 2.0L (valued <= $50k)", "1.5L to 2.0L (valued > $50k)"}
    THEN "Medium"
    ELSE IF description \in {"Engine over 2.0L (2000cc)", "Engine over 2.0L"} THEN "Large"
    ELSE "None"

\* C28: the tier returned by determine_vehicle_duty_rate is true of the input:
\* 'Engine under 1.5L' only when the engine is declared and below 1500cc,
\* 'Engine over 2.0L' only when it is above 2000cc, 'valued > $50k' and 'Value
\* over $50,000' only when CIF > $50,000, also when engine_size_cc is absent or
\* exactly 1500 or 2000; and the Small/Medium/Large label of
\* get_engine_category names the band of the tier selected.
C28_DescriptionTrueOfInput ==
    \A e \in Logged("vehicle") :
        LET r == e.request
            c == VehicleRecord(e)
            band == DescriptionBand(c.duty_description)
        IN  /\ band = "Small" => (~IsNone(r.engine_size_cc) /\ Val(r.engine_size_cc) < 1500)
            /\ band = "Large" => (~IsNone(r.engine_size_cc) /\ Val(r.engine_size_cc) > 2000)
            /\ c.duty_description \in {"1.5L to 2.0L (valued > $50k)", "Value over $50,000"}
                  => r.cif_value > 5000000
            /\ r.vehicle_type \in {"gasoline", "diesel"} => c.engine_category = band

\* the two item edits have completed, they were made on the same classification
\* at different item indices, and both had read it before either wrote
ConcurrentEditsDone ==
    /\ edits["e1"].pc = "done"
    /\ edits["e2"].pc = "done"
    /\ edits["e1"].classification_id = edits["e2"].classification_id
    /\ edits["e1"].item_index # edits["e2"].item_index
    /\ edits["e1"].classification = edits["e2"].classification
    /\ \E c \in classifications : c.id = edits["e1"].classification_id

\* the stored items show the edit: the updated item is the one sent, the
\* deleted item is gone
EditTookEffect(edit, items) ==
    LET read == Val(edit.classification).items
    IN  IF edit.op = "update"
        THEN Val(edit.item_update) \in SeqToSet(items)
        ELSE read[edit.item_index + 1] \notin SeqToSet(items)

\* C29: two concurrent item edits on the same classification (update and/or
\* delete, on different item indices) both take effect: after both complete,
\* the stored items reflect both changes, total_items is the number of items,
\* and auto_approved_count + needs_review_count = total_items.
C29_ConcurrentEditsBothTakeEffect ==
    ConcurrentEditsDone =>
        LET c == CHOOSE c \in classifications : c.id = edits["e1"].classification_id
        IN  /\ EditTookEffect(edits["e1"], c.items)
            /\ EditTookEffect(edits["e2"], c.items)
            /\ c.total_items = Len(c.items)
            /\ c.auto_approved_count + c.needs_review_count = c.total_items

\* C30: deleting a classification also deletes its associated document: after
\* delete_classification succeeds for a classification created by
\* process_and_classify from document D, document D is no longer present in
\* the user's documents.
C30_DocumentDeletedWithClassification ==
    \A deleted \in deleted_classifications :
        \A doc \in documents :
            ~(doc.id = deleted.document_id /\ doc.user_id = deleted.user_id)

====
